---------------------------- MODULE Spec2Model ----------------------------
(***************************************************************************)
(* Model of the friend graph of src/graph.js: class Graph (slot-reusing    *)
(* node storage, deduplicated dated edges, pair index, adjacency sets and  *)
(* the force-layout step), together with the direct position and image     *)
(* writes the page script (src/unnamed/part_001) performs on it.           *)
(*                                                                         *)
(* JavaScript arrays are modelled as functions over 0..len-1 so that the   *)
(* indices of the model are the indices of the program.  Coordinates are   *)
(* fixed-point integers in 1/100 of a distance unit, time steps are in     *)
(* milliseconds, dates are years.                                          *)
(***************************************************************************)
EXTENDS Integers, Sequences, FiniteSets, TLC

VARIABLES nodes, edges, pairToEdgeIndex, adj, ret, ops

VARIABLES selectedIndex, draggingIndex, dragTarget, nodeEls, pending, dragStale

\* the state of the page around the graph: the closure variables of main()
\* (selectedIndex, draggingIndex, dragTarget), the indices that have a node
\* element in the SVG (nodeEls), the image reads in flight (pending), each
\* with the index selected when its file was chosen and whether that node has
\* been deleted since, and whether the node a drag started on has been
\* deleted since (dragStale)
pageVars == <<selectedIndex, draggingIndex, dragTarget, nodeEls, pending, dragStale>>

vars == <<nodes, edges, pairToEdgeIndex, adj, ret, ops,
          selectedIndex, draggingIndex, dragTarget, nodeEls, pending, dragStale>>

---------------------------------------------------------------------------
(* Bounds of the model *)

\* storage never grows beyond MaxSlots slots
MaxSlots == 3

\* the model follows every sequence of at most MaxOps calls
MaxOps == 4

\* and every sequence of at most MaxEvents events of the page
MaxEvents == 8

\* friend names
Names == {"A", "B", "C"}

\* connection dates (years)
Dates == {2015, 2020}

\* name lists of a friend group (non-empty), as collected from the name
\* inputs: single, pairs in both index orders, a repeated name, a group of three
Groups ==
    { <<"A">>, <<"A", "B">>, <<"B", "C">>, <<"C", "A">>, <<"A", "A">>,
      <<"A", "B", "C">> }

\* time steps of a frame, in milliseconds
Timesteps == {16}

\* positions a drag puts a node at, in coordinate units: the origin, a point
\* half a unit right of it and a point 50 right, 30 down of it
DragTargets == {<<0, 0>>, <<50, 0>>, <<5000, 3000>>}

\* images set from the side panel: one data URL (0 stands for null)
Images == {1}

\* what the page's form submits: name lists, a year, and the name typed in
\* the side panel
PageGroups == { <<"A", "B">>, <<"C">> }

PageDates == {2015}

PanelNames == {"C"}

\* where the pointer drags a node to
PointerTargets == {<<5000, 3000>>}

---------------------------------------------------------------------------
(* JavaScript arrays: functions over 0..len-1 *)

EmptyArr == [k \in {} |-> 0]

ArrLen(arr) == Cardinality(DOMAIN arr)

ArrPush(arr, x) == [k \in 0..ArrLen(arr) |-> IF k < ArrLen(arr) THEN arr[k] ELSE x]

\* Array.from(sequence): a 1-based TLA+ sequence as a 0-based array
ArrOf(s) == [k \in 0..(Len(s) - 1) |-> s[k + 1]]

---------------------------------------------------------------------------
(* vec2: 2D vectors, as pairs of fixed-point integers *)

Vec2(x, y) == <<x, y>>

Vec2Add(a, b) == <<a[1] + b[1], a[2] + b[2]>>

Vec2Sub(a, b) == <<a[1] - b[1], a[2] - b[2]>>

Vec2Eq(a, b) == a[1] = b[1] /\ a[2] = b[2]

---------------------------------------------------------------------------
(* class Node *)

\* the null that marks a freed slot of Graph.nodes
Null == [live |-> FALSE, name |-> "", image |-> 0, pos |-> Vec2(0, 0)]

\* new Node(name): image null (0), position (0,0)
Node(name) == [live |-> TRUE, name |-> name, image |-> 0, pos |-> Vec2(0, 0)]

---------------------------------------------------------------------------
(* class Graph: the operations as functions of a graph record              *)
(*   g = [nodes, edges, pairToEdgeIndex, adj]                               *)

\* the key a + ":" + b of the pair index; the concatenation of two decimal
\* numbers around ":" is injective, so the key is the pair itself
PairKey(a, b) == <<a, b>>

\* new Graph()
NewGraph ==
    [nodes |-> EmptyArr, edges |-> EmptyArr,
     pairToEdgeIndex |-> [k \in {} |-> 0], adj |-> EmptyArr]


\* the name loop giving up after the slot it starts at
ScanNameFirstSlotOnly(ns, name, idx) ==
    IF idx >= ArrLen(ns) THEN -1
    ELSE IF ns[idx] /= Null /\ ns[idx].name = name THEN idx
    ELSE -1

\* the name loop keeping the last match instead of returning at the first
ScanNameLastMatch(ns, name, idx) ==
    LET hits == {k \in DOMAIN ns : k >= idx /\ ns[k] /= Null /\ ns[k].name = name}
    IN  IF hits = {} THEN -1 ELSE CHOOSE k \in hits : \A m \in hits : m <= k

\* first loop of getOrCreateNodeIndex: lowest idx >= from whose node is live
\* and has the name, or -1
RECURSIVE ScanName(_, _, _)
ScanName(ns, name, idx) ==
    IF idx >= ArrLen(ns) THEN -1
    ELSE IF ns[idx] /= Null /\ ns[idx].name = name THEN idx
    ELSE ScanName(ns, name, idx + 1)

\* second loop of getOrCreateNodeIndex: lowest idx >= from whose slot is null,
\* or -1
RECURSIVE ScanFree(_, _)
ScanFree(ns, idx) ==
    IF idx >= ArrLen(ns) THEN -1
    ELSE IF ns[idx] = Null THEN idx
    ELSE ScanFree(ns, idx + 1)


\* getOrCreateNodeIndex taking a free slot before looking the name up
GetOrCreateNodeIndexReuseFirst(g, name) ==
    LET found == ScanName(g.nodes, name, 0)
        free  == ScanFree(g.nodes, 0)
    IN  IF free /= -1 THEN
            [g |-> [g EXCEPT !.nodes = [g.nodes EXCEPT ![free] = Node(name)],
                             !.adj = [g.adj EXCEPT ![free] = {}]],
             idx |-> free]
        ELSE IF found /= -1 THEN [g |-> g, idx |-> found]
        ELSE
            [g |-> [g EXCEPT !.nodes = ArrPush(g.nodes, Node(name)),
                             !.adj = ArrPush(g.adj, {})],
             idx |-> ArrLen(g.nodes)]

\* getOrCreateNodeIndex that never reuses a freed slot
GetOrCreateNodeIndexAppendOnly(g, name) ==
    LET found == ScanName(g.nodes, name, 0)
    IN  IF found /= -1 THEN [g |-> g, idx |-> found]
        ELSE
            [g |-> [g EXCEPT !.nodes = ArrPush(g.nodes, Node(name)),
                             !.adj = ArrPush(g.adj, {})],
             idx |-> ArrLen(g.nodes)]

\* getOrCreateNodeIndex(name): the graph afterwards and the returned index
GetOrCreateNodeIndex(g, name) ==
    LET found == ScanName(g.nodes, name, 0)
        free  == ScanFree(g.nodes, 0)
    IN  IF found /= -1 THEN [g |-> g, idx |-> found]
        ELSE IF free /= -1 THEN
            [g |-> [g EXCEPT !.nodes = [g.nodes EXCEPT ![free] = Node(name)],
                             !.adj = [g.adj EXCEPT ![free] = {}]],
             idx |-> free]
        ELSE
            [g |-> [g EXCEPT !.nodes = ArrPush(g.nodes, Node(name)),
                             !.adj = ArrPush(g.adj, {})],
             idx |-> ArrLen(g.nodes)]


\* degree(i) of the edge-scan variant of Graph: 0 for a free slot, otherwise
\* the edges from position e on that have i as an endpoint
RECURSIVE CountIncident(_, _, _)
CountIncident(es, i, e) ==
    IF e >= ArrLen(es) THEN 0
    ELSE (IF es[e][1] = i \/ es[e][2] = i THEN 1 ELSE 0) + CountIncident(es, i, e + 1)

DegreeScan(g, i) == IF g.nodes[i] = Null THEN 0 ELSE CountIncident(g.edges, i, 0)

\* isFree(i)
IsFree(g, i) == g.nodes[i] = Null

\* degree(i)
Degree(g, i) == Cardinality(g.adj[i])




\* addOrUpdateEdge that stores a new edge without touching the adjacency sets
AddOrUpdateEdgeNoAdj(g, i, j, date) ==
    LET a == IF i < j THEN i ELSE j
        b == IF i < j THEN j ELSE i
        key == PairKey(a, b)
    IN  IF key \in DOMAIN g.pairToEdgeIndex THEN
            LET existing == g.pairToEdgeIndex[key]
            IN  IF date < g.edges[existing][3]
                THEN [g EXCEPT !.edges = [g.edges EXCEPT ![existing] = <<a, b, date>>]]
                ELSE g
        ELSE
            LET idx == ArrLen(g.edges)
            IN  [g EXCEPT !.edges = ArrPush(g.edges, <<a, b, date>>),
                          !.pairToEdgeIndex =
                              [k \in DOMAIN g.pairToEdgeIndex \cup {key} |->
                                  IF k = key THEN idx ELSE g.pairToEdgeIndex[k]]]

\* addOrUpdateEdge storing the submitted date whenever the pair exists
AddOrUpdateEdgeLatest(g, i, j, date) ==
    LET a == IF i < j THEN i ELSE j
        b == IF i < j THEN j ELSE i
        key == PairKey(a, b)
    IN  IF key \in DOMAIN g.pairToEdgeIndex THEN
            LET existing == g.pairToEdgeIndex[key]
            IN  [g EXCEPT !.edges = [g.edges EXCEPT ![existing] = <<a, b, date>>]]
        ELSE
            LET idx == ArrLen(g.edges)
                adjA == [g.adj EXCEPT ![a] = @ \cup {b}]
            IN  [g EXCEPT !.edges = ArrPush(g.edges, <<a, b, date>>),
                          !.pairToEdgeIndex =
                              [k \in DOMAIN g.pairToEdgeIndex \cup {key} |->
                                  IF k = key THEN idx ELSE g.pairToEdgeIndex[k]],
                          !.adj = [adjA EXCEPT ![b] = @ \cup {a}]]

\* addOrUpdateEdge recording the new edge in the adjacency set of a only
AddOrUpdateEdgeOneWay(g, i, j, date) ==
    LET a == IF i < j THEN i ELSE j
        b == IF i < j THEN j ELSE i
        key == PairKey(a, b)
    IN  IF key \in DOMAIN g.pairToEdgeIndex THEN
            LET existing == g.pairToEdgeIndex[key]
            IN  IF date < g.edges[existing][3]
                THEN [g EXCEPT !.edges = [g.edges EXCEPT ![existing] = <<a, b, date>>]]
                ELSE g
        ELSE
            LET idx == ArrLen(g.edges)
            IN  [g EXCEPT !.edges = ArrPush(g.edges, <<a, b, date>>),
                          !.pairToEdgeIndex =
                              [k \in DOMAIN g.pairToEdgeIndex \cup {key} |->
                                  IF k = key THEN idx ELSE g.pairToEdgeIndex[k]],
                          !.adj = [g.adj EXCEPT ![a] = @ \cup {b}]]

\* addOrUpdateEdge keying the pair as given, without ordering the endpoints
AddOrUpdateEdgeNoCanon(g, i, j, date) ==
    LET a == i
        b == j
        key == PairKey(a, b)
    IN  IF key \in DOMAIN g.pairToEdgeIndex THEN
            LET existing == g.pairToEdgeIndex[key]
            IN  IF date < g.edges[existing][3]
                THEN [g EXCEPT !.edges = [g.edges EXCEPT ![existing] = <<a, b, date>>]]
                ELSE g
        ELSE
            LET idx == ArrLen(g.edges)
                adjA == [g.adj EXCEPT ![a] = @ \cup {b}]
            IN  [g EXCEPT !.edges = ArrPush(g.edges, <<a, b, date>>),
                          !.pairToEdgeIndex =
                              [k \in DOMAIN g.pairToEdgeIndex \cup {key} |->
                                  IF k = key THEN idx ELSE g.pairToEdgeIndex[k]],
                          !.adj = [adjA EXCEPT ![b] = @ \cup {a}]]

\* addOrUpdateEdge(i, j, date)
AddOrUpdateEdge(g, i, j, date) ==
    LET a == IF i < j THEN i ELSE j
        b == IF i < j THEN j ELSE i
        key == PairKey(a, b)
    IN  IF key \in DOMAIN g.pairToEdgeIndex THEN
            LET existing == g.pairToEdgeIndex[key]
            IN  IF date < g.edges[existing][3]
                THEN [g EXCEPT !.edges = [g.edges EXCEPT ![existing] = <<a, b, date>>]]
                ELSE g
        ELSE
            LET idx == ArrLen(g.edges)
                adjA == [g.adj EXCEPT ![a] = @ \cup {b}]
            IN  [g EXCEPT !.edges = ArrPush(g.edges, <<a, b, date>>),
                          !.pairToEdgeIndex =
                              [k \in DOMAIN g.pairToEdgeIndex \cup {key} |->
                                  IF k = key THEN idx ELSE g.pairToEdgeIndex[k]],
                          !.adj = [adjA EXCEPT ![b] = @ \cup {a}]]

\* first loop of addFriendGroup: resolve names[k..] to indices
RECURSIVE ResolveNames(_, _, _, _)
ResolveNames(g, names, k, indices) ==
    IF k > Len(names) THEN [g |-> g, indices |-> indices]
    ELSE LET r == GetOrCreateNodeIndex(g, names[k])
         IN  ResolveNames(r.g, names, k + 1, ArrPush(indices, r.idx))


\* loop nest of addFriendGroup joining only neighbours in the list
RECURSIVE CliqueEdgesChain(_, _, _, _, _)
CliqueEdgesChain(g, indices, a, b, date) ==
    IF a >= ArrLen(indices) THEN g
    ELSE IF b >= ArrLen(indices) \/ b > a + 1
         THEN CliqueEdgesChain(g, indices, a + 1, a + 2, date)
    ELSE CliqueEdgesChain(AddOrUpdateEdge(g, indices[a], indices[b], date),
                          indices, a, b + 1, date)

\* second loop nest of addFriendGroup: for a, for b = a+1.., addOrUpdateEdge
RECURSIVE CliqueEdges(_, _, _, _, _)
CliqueEdges(g, indices, a, b, date) ==
    IF a >= ArrLen(indices) THEN g
    ELSE IF b >= ArrLen(indices) THEN CliqueEdges(g, indices, a + 1, a + 2, date)
    ELSE CliqueEdges(AddOrUpdateEdge(g, indices[a], indices[b], date),
                     indices, a, b + 1, date)

\* addFriendGroup(names, date); names is a 1-based sequence of names
AddFriendGroup(g, names, date) ==
    LET r == ResolveNames(g, names, 1, EmptyArr)
    IN  [g |-> CliqueEdges(r.g, r.indices, 0, 1, date), indices |-> r.indices]

\* renameNode(i, newName)
RenameNode(g, i, newName) ==
    [g EXCEPT !.nodes = [g.nodes EXCEPT ![i] = [@ EXCEPT !.name = newName]]]

\* _rebuildEdgeIndex(): loop over the edge list from position e
RECURSIVE RebuildFrom(_, _)
RebuildFrom(g, e) ==
    IF e >= ArrLen(g.edges) THEN g
    ELSE LET a == g.edges[e][1]
             b == g.edges[e][2]
             key == PairKey(a, b)
             adjA == [g.adj EXCEPT ![a] = @ \cup {b}]
         IN  RebuildFrom(
                [g EXCEPT !.pairToEdgeIndex =
                              [k \in DOMAIN g.pairToEdgeIndex \cup {key} |->
                                  IF k = key THEN e ELSE g.pairToEdgeIndex[k]],
                          !.adj = [adjA EXCEPT ![b] = @ \cup {a}]],
                e + 1)



\* _rebuildEdgeIndex() that resets the adjacency sets but not the pair index
RebuildEdgeIndexKeepPairs(g) ==
    RebuildFrom([g EXCEPT !.adj = [k \in DOMAIN g.adj |-> {}]], 0)

\* _rebuildEdgeIndex() that resets the pair index but not the adjacency sets
RebuildEdgeIndexKeepAdj(g) ==
    RebuildFrom([g EXCEPT !.pairToEdgeIndex = [k \in {} |-> 0]], 0)

\* _rebuildEdgeIndex()
RebuildEdgeIndex(g) ==
    RebuildFrom([g EXCEPT !.pairToEdgeIndex = [k \in {} |-> 0],
                          !.adj = [k \in DOMAIN g.adj |-> {}]], 0)




\* the filter loop of deleteNode putting each edge at the front of its list
RECURSIVE FilterEdgesUnshift(_, _, _, _, _)
FilterEdgesUnshift(es, i, e, removedPairs, kept) ==
    LET Unshift(arr, x) == [k \in 0..ArrLen(arr) |-> IF k = 0 THEN x ELSE arr[k - 1]]
    IN  IF e >= ArrLen(es) THEN [removedPairs |-> removedPairs, kept |-> kept]
        ELSE IF es[e][1] = i \/ es[e][2] = i
             THEN FilterEdgesUnshift(es, i, e + 1,
                                     Unshift(removedPairs, <<es[e][1], es[e][2]>>), kept)
             ELSE FilterEdgesUnshift(es, i, e + 1, removedPairs, Unshift(kept, es[e]))

\* the filter loop of deleteNode testing the first endpoint only
RECURSIVE FilterEdgesFirstOnly(_, _, _, _, _)
FilterEdgesFirstOnly(es, i, e, removedPairs, kept) ==
    IF e >= ArrLen(es) THEN [removedPairs |-> removedPairs, kept |-> kept]
    ELSE IF es[e][1] = i
         THEN FilterEdgesFirstOnly(es, i, e + 1,
                                   ArrPush(removedPairs, <<es[e][1], es[e][2]>>), kept)
         ELSE FilterEdgesFirstOnly(es, i, e + 1, removedPairs, ArrPush(kept, es[e]))

\* the filter loop of deleteNode keeping every edge
FilterEdgesKeepAll(es, i, e, removedPairs, kept) ==
    [removedPairs |-> removedPairs, kept |-> es]

\* the filter loop of deleteNode from edge position e: the removed endpoint
\* pairs and the kept edges, both in storage order
RECURSIVE FilterEdges(_, _, _, _, _)
FilterEdges(es, i, e, removedPairs, kept) ==
    IF e >= ArrLen(es) THEN [removedPairs |-> removedPairs, kept |-> kept]
    ELSE IF es[e][1] = i \/ es[e][2] = i
         THEN FilterEdges(es, i, e + 1, ArrPush(removedPairs, <<es[e][1], es[e][2]>>), kept)
         ELSE FilterEdges(es, i, e + 1, removedPairs, ArrPush(kept, es[e]))


\* deleteNode(i) that drops the incident edges and clears the node's own
\* adjacency set but does not rebuild the lookups
DeleteNodeNoRebuild(g, i) ==
    IF g.nodes[i] = Null THEN [g |-> g, removedPairs |-> EmptyArr]
    ELSE LET f == FilterEdges(g.edges, i, 0, EmptyArr, EmptyArr)
         IN  [g |-> [g EXCEPT !.nodes = [g.nodes EXCEPT ![i] = Null],
                              !.adj = [g.adj EXCEPT ![i] = {}],
                              !.edges = f.kept],
              removedPairs |-> f.removedPairs]

\* deleteNode(i) without the early return on a free slot
DeleteNodeNoGuard(g, i) ==
    LET f == FilterEdges(g.edges, i, 0, EmptyArr, EmptyArr)
        g1 == [g EXCEPT !.nodes = [g.nodes EXCEPT ![i] = Null],
                        !.adj = [g.adj EXCEPT ![i] = {}],
                        !.edges = f.kept]
    IN  [g |-> RebuildEdgeIndex(g1), removedPairs |-> f.removedPairs]

\* deleteNode(i): the graph afterwards and the returned pairs
DeleteNode(g, i) ==
    IF g.nodes[i] = Null THEN [g |-> g, removedPairs |-> EmptyArr]
    ELSE LET f == FilterEdges(g.edges, i, 0, EmptyArr, EmptyArr)
             g1 == [g EXCEPT !.nodes = [g.nodes EXCEPT ![i] = Null],
                             !.adj = [g.adj EXCEPT ![i] = {}],
                             !.edges = f.kept]
         IN  [g |-> RebuildEdgeIndex(g1), removedPairs |-> f.removedPairs]

---------------------------------------------------------------------------
(* Fixed-point arithmetic of the force step *)

\* coordinate units per distance unit
Scale == 100

\* units of a direction vector per 1.0
DirScale == 1000

\* division rounding toward zero (b > 0)
TDiv(a, b) == IF a >= 0 THEN a \div b ELSE -((-a) \div b)

Abs(a) == IF a >= 0 THEN a ELSE -a

Max(a, b) == IF a >= b THEN a ELSE b

RECURSIVE SqrtSearch(_, _, _)
SqrtSearch(n, lo, hi) ==
    IF lo >= hi THEN lo
    ELSE LET mid == (lo + hi + 1) \div 2
         IN  IF mid * mid <= n THEN SqrtSearch(n, mid, hi)
             ELSE SqrtSearch(n, lo, mid - 1)

\* Math.sqrt, rounded down
ISqrt(n) == SqrtSearch(n, 0, 46340)

\* vec2.len
Vec2Len(a) == ISqrt(a[1] * a[1] + a[2] * a[2])

\* vec2.mul(a, s) for a scalar s given as the fraction num/den
Vec2MulFrac(a, num, den) == <<TDiv(a[1] * num, den), TDiv(a[2] * num, den)>>

---------------------------------------------------------------------------
(* Graph: tunable constants (constructor) and update(t) *)

\* springK = 0.6, in tenths
springK == 6

\* springRest = 140 distance units
springRest == 140 * Scale

\* repelK = 2600
repelK == 2600

\* closeRepelK = 500
closeRepelK == 500

\* centerK = 0.020, in hundredths
centerK == 2

\* this.jitter, in coordinate units
jitter ==
    ArrOf(<< Vec2(250, 0), Vec2(180, 180), Vec2(0, 250), Vec2(-180, 180),
             Vec2(-250, 0), Vec2(-180, -180), Vec2(0, -250), Vec2(180, -180) >>)

\* the displacement taking the jitter entry of the lower index
PairRJitterOfLowIndex(ns, i2, j) ==
    LET pi == ns[i2].pos
        pj == IF Vec2Eq(pi, ns[j].pos) THEN Vec2Add(ns[j].pos, jitter[i2 % 8])
              ELSE ns[j].pos
    IN  Vec2Sub(pj, pi)

\* the displacement r of the pair (i2, j): pj - pi, with the jitter entry
\* j & 7 added to pj when the positions coincide
PairR(ns, i2, j) ==
    LET pi == ns[i2].pos
        pj == IF Vec2Eq(pi, ns[j].pos) THEN Vec2Add(ns[j].pos, jitter[j % 8])
              ELSE ns[j].pos
    IN  Vec2Sub(pj, pi)

\* dir computed after the clamp, from the clamped distance
PairDirByClampedDist(r) == Vec2MulFrac(r, DirScale, Max(Vec2Len(r), Scale))

\* dir = vec2.div(r, dist) with dist = vec2.len(r), before the clamp
PairDir(r) == Vec2MulFrac(r, DirScale, Vec2Len(r))

\* dist = Math.max(dist, 1)
PairDist(r) == Max(Vec2Len(r), Scale)

\* fSpring = dir * springK * stretch * |stretch| / springRest
FSpring(dir, dist) ==
    LET stretch == dist - springRest
        fMag == TDiv(springK * stretch * Abs(stretch), 10 * springRest)
    IN  Vec2MulFrac(dir, fMag, DirScale)

\* frep = dir * repelK / (dist * dist)
FRepel(dir, dist) ==
    LET fRepel == TDiv(TDiv(repelK * 1000 * Scale, dist) * 10, dist)
    IN  Vec2MulFrac(dir, fRepel, DirScale)

\* fcl = dir * closeRepelK / dist^4
FClose(dir, dist) ==
    LET d2 == dist * dist
        fClose == TDiv(TDiv(closeRepelK * 10000 * Scale, d2) * 10000, d2)
    IN  Vec2MulFrac(dir, fClose, DirScale)

\* the inner loop body adding the close-range term to both nodes
PairForcesCloseSameSign(g, forces, i2, j) ==
    LET r == PairR(g.nodes, i2, j)
        dir == PairDir(r)
        dist == PairDist(r)
        connected == j \in g.adj[i2]
        f1 == IF connected
              THEN LET fSpring == FSpring(dir, dist)
                   IN  [forces EXCEPT ![i2] = Vec2Add(@, fSpring),
                                      ![j] = Vec2Sub(@, fSpring)]
              ELSE LET frep == FRepel(dir, dist)
                   IN  [forces EXCEPT ![i2] = Vec2Sub(@, frep),
                                      ![j] = Vec2Add(@, frep)]
        fcl == FClose(dir, dist)
    IN  [f1 EXCEPT ![i2] = Vec2Add(@, fcl), ![j] = Vec2Add(@, fcl)]

\* body of the inner loop of update for the live pair i2 < j
PairForces(g, forces, i2, j) ==
    LET r == PairR(g.nodes, i2, j)
        dir == PairDir(r)
        dist == PairDist(r)
        connected == j \in g.adj[i2]
        f1 == IF connected
              THEN LET fSpring == FSpring(dir, dist)
                   IN  [forces EXCEPT ![i2] = Vec2Add(@, fSpring),
                                      ![j] = Vec2Sub(@, fSpring)]
              ELSE LET frep == FRepel(dir, dist)
                   IN  [forces EXCEPT ![i2] = Vec2Sub(@, frep),
                                      ![j] = Vec2Add(@, frep)]
        fcl == FClose(dir, dist)
    IN  [f1 EXCEPT ![i2] = Vec2Sub(@, fcl), ![j] = Vec2Add(@, fcl)]

\* the pair loops of update: for i2, for j = i2+1.., skipping null slots
RECURSIVE PairLoop(_, _, _, _)
PairLoop(g, forces, i2, j) ==
    LET n == ArrLen(g.nodes)
    IN  IF i2 >= n THEN forces
        ELSE IF g.nodes[i2] = Null \/ j >= n THEN PairLoop(g, forces, i2 + 1, i2 + 2)
        ELSE IF g.nodes[j] = Null THEN PairLoop(g, forces, i2, j + 1)
        ELSE PairLoop(g, PairForces(g, forces, i2, j), i2, j + 1)

\* the centering loop of update
CenterForces(g, forces) ==
    [k \in DOMAIN forces |->
        IF g.nodes[k] = Null THEN forces[k]
        ELSE Vec2Sub(forces[k], Vec2MulFrac(g.nodes[k].pos, centerK, 100))]

\* update(t) storing a new Node object per live slot instead of moving the
\* one that is there
UpdateFreshNodes(g, t) ==
    LET n == ArrLen(g.nodes)
        forces0 == [k \in 0..(n - 1) |-> Vec2(0, 0)]
        forces == CenterForces(g, PairLoop(g, forces0, 0, 1))
    IN  IF n = 0 THEN g
        ELSE [g EXCEPT !.nodes =
                [m \in DOMAIN g.nodes |->
                    IF g.nodes[m] = Null THEN g.nodes[m]
                    ELSE [Node(g.nodes[m].name) EXCEPT
                            !.pos = Vec2Add(g.nodes[m].pos,
                                            Vec2MulFrac(forces[m], t, 1000))]]]

\* update(t), t in milliseconds
Update(g, t) ==
    LET n == ArrLen(g.nodes)
        forces0 == [k \in 0..(n - 1) |-> Vec2(0, 0)]
        forces == CenterForces(g, PairLoop(g, forces0, 0, 1))
    IN  IF n = 0 THEN g
        ELSE [g EXCEPT !.nodes =
                [m \in DOMAIN g.nodes |->
                    IF g.nodes[m] = Null THEN g.nodes[m]
                    ELSE [g.nodes[m] EXCEPT
                            !.pos = Vec2Add(@, Vec2MulFrac(forces[m], t, 1000))]]]

---------------------------------------------------------------------------
(* The state machine: one Graph object and the calls made on it *)

\* the Graph object as a record of its fields
G == [nodes |-> nodes, edges |-> edges, pairToEdgeIndex |-> pairToEdgeIndex, adj |-> adj]

\* the fields after a call
Becomes(g) ==
    /\ nodes' = g.nodes
    /\ edges' = g.edges
    /\ pairToEdgeIndex' = g.pairToEdgeIndex
    /\ adj' = g.adj

\* the record of the last call: operation, arguments, returned value and
\* whether the call threw
NoCall ==
    [op |-> "new", i |-> -1, j |-> -1, name |-> "", names |-> << >>, date |-> 0,
     t |-> 0, val |-> -1, indices |-> EmptyArr, pairs |-> EmptyArr,
     threw |-> FALSE, stale |-> FALSE]

InBounds == 0..(ArrLen(nodes) - 1)

Live == {i \in InBounds : nodes[i] /= Null}

\* one more call made on the graph itself, no handler of the page involved;
\* the model follows MaxOps calls
Counted == ops < MaxOps /\ ops' = ops + 1 /\ UNCHANGED pageVars

\* new Graph(), and main() before any event
Init ==
    /\ nodes = NewGraph.nodes
    /\ edges = NewGraph.edges
    /\ pairToEdgeIndex = NewGraph.pairToEdgeIndex
    /\ adj = NewGraph.adj
    /\ ret = NoCall
    /\ ops = 0
    /\ selectedIndex = -1
    /\ draggingIndex = -1
    /\ dragTarget = Vec2(0, 0)
    /\ nodeEls = {}
    /\ pending = {}
    /\ dragStale = FALSE

\* graph.getOrCreateNodeIndex(name)
CallGetOrCreateNodeIndex(name) ==
    LET r == GetOrCreateNodeIndex(G, name)
    IN  /\ Counted
        /\ ArrLen(r.g.nodes) <= MaxSlots
        /\ Becomes(r.g)
        /\ ret' = [NoCall EXCEPT !.op = "getOrCreateNodeIndex", !.name = name,
                                 !.val = r.idx]

\* graph.addFriendGroup(names, date)
CallAddFriendGroup(names, date) ==
    LET r == AddFriendGroup(G, names, date)
    IN  /\ Counted
        /\ ArrLen(r.g.nodes) <= MaxSlots
        /\ Becomes(r.g)
        /\ ret' = [NoCall EXCEPT !.op = "addFriendGroup", !.names = names,
                                 !.date = date, !.indices = r.indices]

\* graph.renameNode(i, newName) on a live node
CallRenameNode(i, newName) ==
    /\ Counted
    /\ Becomes(RenameNode(G, i, newName))
    /\ ret' = [NoCall EXCEPT !.op = "renameNode", !.i = i, !.name = newName]

\* graph.update(t)
CallUpdate(t) ==
    /\ Counted
    /\ Becomes(Update(G, t))
    /\ ret' = [NoCall EXCEPT !.op = "update", !.t = t]

\* graph.addOrUpdateEdge(i, j, date)
CallAddOrUpdateEdge(i, j, date) ==
    /\ Counted
    /\ Becomes(AddOrUpdateEdge(G, i, j, date))
    /\ ret' = [NoCall EXCEPT !.op = "addOrUpdateEdge", !.i = i, !.j = j, !.date = date]

\* graph.deleteNode(i)
CallDeleteNode(i) ==
    LET r == DeleteNode(G, i)
    IN  /\ Counted
        /\ Becomes(r.g)
        /\ ret' = [NoCall EXCEPT !.op = "deleteNode", !.i = i, !.pairs = r.removedPairs]

Next ==
    \/ \E name \in Names : CallGetOrCreateNodeIndex(name)
    \/ \E names \in Groups, date \in Dates : CallAddFriendGroup(names, date)
    \/ \E i \in Live, newName \in Names : CallRenameNode(i, newName)
    \/ \E t \in Timesteps : CallUpdate(t)
    \/ \E i \in Live, j \in Live, date \in Dates : CallAddOrUpdateEdge(i, j, date)
    \/ \E i \in InBounds : CallDeleteNode(i)

\* the calls as the page script and addFriendGroup make them: edges are
\* submitted between live nodes
Spec == Init /\ [][Next]_vars

\* the same calls, with addOrUpdateEdge called on any in-bounds indices, free
\* slots included
NextAnyIndex ==
    \/ \E name \in Names : CallGetOrCreateNodeIndex(name)
    \/ \E names \in Groups, date \in Dates : CallAddFriendGroup(names, date)
    \/ \E i \in Live, newName \in Names : CallRenameNode(i, newName)
    \/ \E t \in Timesteps : CallUpdate(t)
    \/ \E i \in InBounds, j \in InBounds, date \in Dates : CallAddOrUpdateEdge(i, j, date)
    \/ \E i \in InBounds : CallDeleteNode(i)

SpecAnyIndex == Init /\ [][NextAnyIndex]_vars



\* the calls that never write a name over an existing node's: no renameNode,
\* and no edge call, which touches no node
NextNoRename ==
    \/ \E name \in Names : CallGetOrCreateNodeIndex(name)
    \/ \E names \in Groups, date \in Dates : CallAddFriendGroup(names, date)
    \/ \E t \in Timesteps : CallUpdate(t)
    \/ \E i \in InBounds : CallDeleteNode(i)

SpecNoRename == Init /\ [][NextNoRename]_vars


---------------------------------------------------------------------------
(* The graph with the page's direct writes to a live node's fields *)

\* graph.nodes[i].pos = dragTarget, as dragMove and frame write it for the
\* dragged node
CallWritePos(i, p) ==
    /\ Counted
    /\ nodes' = [nodes EXCEPT ![i] = [@ EXCEPT !.pos = p]]
    /\ UNCHANGED <<edges, pairToEdgeIndex, adj>>
    /\ ret' = [NoCall EXCEPT !.op = "writePos", !.i = i]

\* graph.nodes[i].image = dataUrl, as the panel's file input writes it for the
\* selected node
CallWriteImage(i, img) ==
    /\ Counted
    /\ nodes' = [nodes EXCEPT ![i] = [@ EXCEPT !.image = img]]
    /\ UNCHANGED <<edges, pairToEdgeIndex, adj>>
    /\ ret' = [NoCall EXCEPT !.op = "writeImage", !.i = i]

NextLayout ==
    \/ \E name \in Names : CallGetOrCreateNodeIndex(name)
    \/ \E names \in Groups, date \in Dates : CallAddFriendGroup(names, date)
    \/ \E t \in Timesteps : CallUpdate(t)
    \/ \E i \in InBounds : CallDeleteNode(i)
    \/ \E i \in Live, p \in DragTargets : CallWritePos(i, p)
    \/ \E i \in Live, img \in Images : CallWriteImage(i, img)

SpecLayout == Init /\ [][NextLayout]_vars


\* the calls the page's add and rename handlers lead to, with getOrCreateNodeIndex
\* and deleteNode: no edge is submitted but by addFriendGroup
NextGroups ==
    \/ \E name \in Names : CallGetOrCreateNodeIndex(name)
    \/ \E names \in Groups, date \in Dates : CallAddFriendGroup(names, date)
    \/ \E i \in Live, newName \in Names : CallRenameNode(i, newName)
    \/ \E i \in InBounds : CallDeleteNode(i)

SpecGroups == Init /\ [][NextGroups]_vars

---------------------------------------------------------------------------
(* Calls with unchecked indices: no method of Graph tests its index, so an
   index one past the end of storage reads undefined and a write at it grows
   the array *)

\* arr[i] = x on a JavaScript array, for i up to the length: in place inside
\* the array, one element longer at i = length
ArrSet(arr, i, x) == IF i \in DOMAIN arr THEN [arr EXCEPT ![i] = x] ELSE ArrPush(arr, x)

\* renameNode(i, newName) throws a TypeError: this.nodes[i] is null or
\* undefined, and the write of its name property throws
RenameNodeThrowsOnUndefinedOnly(g, i) == i \notin DOMAIN g.nodes

RenameNodeThrows(g, i) == i \notin DOMAIN g.nodes \/ g.nodes[i] = Null

\* degree(i) throws a TypeError: this._adj[i] is undefined
DegreeThrows(g, i) == i \notin DOMAIN g.adj

\* isFree(i) at any index: undefined === null is false
IsFreeAt(g, i) == i \in DOMAIN g.nodes /\ IsFree(g, i)

\* deleteNode(i) at any index up to the length: at i = length nodes[i] is
\* undefined, which is not null, so the method goes on and writes
DeleteNodeAt(g, i) ==
    IF i \in DOMAIN g.nodes THEN DeleteNode(g, i)
    ELSE LET f == FilterEdges(g.edges, i, 0, EmptyArr, EmptyArr)
             g1 == [g EXCEPT !.nodes = ArrSet(g.nodes, i, Null),
                             !.adj = ArrSet(g.adj, i, {}),
                             !.edges = f.kept]
         IN  [g |-> RebuildEdgeIndex(g1), removedPairs |-> f.removedPairs]

\* the indices a caller may pass: those in bounds and the first one past the end
UpToLength == 0..ArrLen(nodes)

\* graph.renameNode(i, newName) at any index
CallRenameNodeAt(i, newName) ==
    /\ Counted
    /\ IF RenameNodeThrows(G, i)
       THEN /\ UNCHANGED <<nodes, edges, pairToEdgeIndex, adj>>
            /\ ret' = [NoCall EXCEPT !.op = "renameNode", !.i = i, !.name = newName,
                                     !.threw = TRUE]
       ELSE /\ Becomes(RenameNode(G, i, newName))
            /\ ret' = [NoCall EXCEPT !.op = "renameNode", !.i = i, !.name = newName]

\* graph.degree(i) at any index
CallDegreeAt(i) ==
    /\ Counted
    /\ UNCHANGED <<nodes, edges, pairToEdgeIndex, adj>>
    /\ ret' = IF DegreeThrows(G, i)
              THEN [NoCall EXCEPT !.op = "degree", !.i = i, !.threw = TRUE]
              ELSE [NoCall EXCEPT !.op = "degree", !.i = i, !.val = Degree(G, i)]

\* graph.isFree(i) at any index; val is 1 for true, 0 for false
CallIsFreeAt(i) ==
    /\ Counted
    /\ UNCHANGED <<nodes, edges, pairToEdgeIndex, adj>>
    /\ ret' = [NoCall EXCEPT !.op = "isFree", !.i = i,
                             !.val = IF IsFreeAt(G, i) THEN 1 ELSE 0]

\* graph.deleteNode(i) at any index
CallDeleteNodeAt(i) ==
    LET r == DeleteNodeAt(G, i)
    IN  /\ Counted
        /\ ArrLen(r.g.nodes) <= MaxSlots
        /\ Becomes(r.g)
        /\ ret' = [NoCall EXCEPT !.op = "deleteNode", !.i = i, !.pairs = r.removedPairs]

NextUnchecked ==
    \/ \E name \in Names : CallGetOrCreateNodeIndex(name)
    \/ \E names \in Groups, date \in Dates : CallAddFriendGroup(names, date)
    \/ \E i \in UpToLength, newName \in Names : CallRenameNodeAt(i, newName)
    \/ \E i \in UpToLength : CallDegreeAt(i)
    \/ \E i \in UpToLength : CallIsFreeAt(i)
    \/ \E i \in UpToLength : CallDeleteNodeAt(i)

SpecUnchecked == Init /\ [][NextUnchecked]_vars


---------------------------------------------------------------------------
(* The page: the event handlers of main() around the graph *)

\* one more event handled; the model follows MaxEvents events
Handled == ops < MaxEvents /\ ops' = ops + 1

\* the svg's own pointerdown listener: the selection is dropped unless a drag
\* is going on
SvgPointerDown ==
    selectedIndex' = IF draggingIndex >= 0 THEN selectedIndex ELSE -1

\* pointerdown on the node element of idx: beginDrag(idx, ev). On a free slot
\* it returns before stopPropagation and the event reaches the svg's listener
NodePointerDown(idx) ==
    /\ Handled
    /\ idx \in nodeEls
    /\ IF IsFreeAt(G, idx)
       THEN /\ SvgPointerDown
            /\ UNCHANGED <<draggingIndex, dragTarget, dragStale>>
       ELSE /\ selectedIndex' = idx
            /\ draggingIndex' = idx
            /\ dragTarget' = nodes[idx].pos
            /\ dragStale' = FALSE
    /\ UNCHANGED <<nodes, edges, pairToEdgeIndex, adj, nodeEls, pending>>
    /\ ret' = [NoCall EXCEPT !.op = "beginDrag", !.i = idx]

\* pointermove during a drag: dragMove writes the pointer position to
\* graph.nodes[draggingIndex].pos, which throws on a null slot
PointerMove(p) ==
    /\ Handled
    /\ draggingIndex >= 0
    /\ dragTarget' = p
    /\ IF draggingIndex \notin DOMAIN nodes \/ nodes[draggingIndex] = Null
       THEN /\ UNCHANGED nodes
            /\ ret' = [NoCall EXCEPT !.op = "dragMove", !.i = draggingIndex,
                                     !.threw = TRUE, !.stale = dragStale]
       ELSE /\ nodes' = [nodes EXCEPT ![draggingIndex] = [@ EXCEPT !.pos = p]]
            /\ ret' = [NoCall EXCEPT !.op = "dragMove", !.i = draggingIndex,
                                     !.stale = dragStale]
    /\ UNCHANGED <<edges, pairToEdgeIndex, adj, selectedIndex, draggingIndex,
                   nodeEls, pending, dragStale>>

\* pointerup or pointercancel during a drag: endDrag
PointerUp ==
    /\ Handled
    /\ draggingIndex >= 0
    /\ draggingIndex' = -1
    /\ dragStale' = FALSE
    /\ UNCHANGED <<nodes, edges, pairToEdgeIndex, adj, selectedIndex, dragTarget,
                   nodeEls, pending>>
    /\ ret' = [NoCall EXCEPT !.op = "endDrag"]

\* pointerdown on the background with a node selected
BackgroundPointerDown ==
    /\ Handled
    /\ selectedIndex >= 0
    /\ SvgPointerDown
    /\ UNCHANGED <<nodes, edges, pairToEdgeIndex, adj, draggingIndex, dragTarget,
                   nodeEls, pending, dragStale>>
    /\ ret' = [NoCall EXCEPT !.op = "svgPointerDown"]

\* input in the panel's name field: liveRenameFromPanel
PanelNameInput(next) ==
    /\ Handled
    /\ selectedIndex >= 0
    /\ IF RenameNodeThrows(G, selectedIndex)
       THEN /\ UNCHANGED <<nodes, edges, pairToEdgeIndex, adj>>
            /\ ret' = [NoCall EXCEPT !.op = "liveRename", !.i = selectedIndex,
                                     !.name = next, !.threw = TRUE]
       ELSE /\ Becomes(RenameNode(G, selectedIndex, next))
            /\ ret' = [NoCall EXCEPT !.op = "liveRename", !.i = selectedIndex,
                                     !.name = next]
    /\ UNCHANGED pageVars


\* the delete handler without the reset of selectedIndex
PanelDeleteClickKeepsSelection ==
    LET idx == selectedIndex
        r == DeleteNodeAt(G, idx)
        wasLive == idx \in Live
    IN  /\ Handled
        /\ selectedIndex >= 0
        /\ Becomes(r.g)
        /\ nodeEls' = nodeEls \ {idx}
        /\ pending' = {IF rd.s = idx /\ wasLive THEN [rd EXCEPT !.stale = TRUE] ELSE rd :
                        rd \in pending}
        /\ dragStale' = (dragStale \/ (wasLive /\ draggingIndex = idx))
        /\ UNCHANGED <<selectedIndex, draggingIndex, dragTarget>>
        /\ ret' = [NoCall EXCEPT !.op = "panelDelete", !.i = idx, !.pairs = r.removedPairs]

\* click on the panel's delete button
PanelDeleteClick ==
    LET idx == selectedIndex
        r == DeleteNodeAt(G, idx)
        wasLive == idx \in Live
    IN  /\ Handled
        /\ selectedIndex >= 0
        /\ Becomes(r.g)
        /\ nodeEls' = nodeEls \ {idx}
        /\ selectedIndex' = -1
        /\ pending' = {IF rd.s = idx /\ wasLive THEN [rd EXCEPT !.stale = TRUE] ELSE rd :
                        rd \in pending}
        /\ dragStale' = (dragStale \/ (wasLive /\ draggingIndex = idx))
        /\ UNCHANGED <<draggingIndex, dragTarget>>
        /\ ret' = [NoCall EXCEPT !.op = "panelDelete", !.i = idx, !.pairs = r.removedPairs]

\* click on the add button
AddBtnClick(names, date) ==
    LET r == AddFriendGroup(G, names, date)
    IN  /\ Handled
        /\ ArrLen(r.g.nodes) <= MaxSlots
        /\ Becomes(r.g)
        /\ UNCHANGED pageVars
        /\ ret' = [NoCall EXCEPT !.op = "addBtn", !.names = names, !.date = date,
                                 !.indices = r.indices]

\* change of the panel's file input with a node selected: an image read starts
PanelFileChange ==
    /\ Handled
    /\ selectedIndex >= 0
    /\ pending' = pending \cup {[s |-> selectedIndex, stale |-> FALSE]}
    /\ UNCHANGED <<nodes, edges, pairToEdgeIndex, adj, selectedIndex, draggingIndex,
                   dragTarget, nodeEls, dragStale>>
    /\ ret' = [NoCall EXCEPT !.op = "fileChange", !.i = selectedIndex]

\* an image read completes: the then-callback writes the image to
\* graph.nodes[selectedIndex], with selectedIndex as it is now; the write
\* throws when that is -1 or a null slot
ImageReadDone(rd, img) ==
    /\ Handled
    /\ rd \in pending
    /\ pending' = pending \ {rd}
    /\ IF selectedIndex \notin DOMAIN nodes \/ nodes[selectedIndex] = Null
       THEN /\ UNCHANGED nodes
            /\ ret' = [NoCall EXCEPT !.op = "imageRead", !.i = selectedIndex,
                                     !.val = rd.s, !.stale = rd.stale, !.threw = TRUE]
       ELSE /\ nodes' = [nodes EXCEPT ![selectedIndex] = [@ EXCEPT !.image = img]]
            /\ ret' = [NoCall EXCEPT !.op = "imageRead", !.i = selectedIndex,
                                     !.val = rd.s, !.stale = rd.stale]
    /\ UNCHANGED <<edges, pairToEdgeIndex, adj, selectedIndex, draggingIndex,
                   dragTarget, nodeEls, dragStale>>

\* the position write of frame, before and after update: only with a drag on
\* a slot that is not free
FrameDragWrite(g) ==
    IF draggingIndex >= 0 /\ ~IsFreeAt(g, draggingIndex)
    THEN [g EXCEPT !.nodes = [g.nodes EXCEPT ![draggingIndex] =
                                    [@ EXCEPT !.pos = dragTarget]]]
    ELSE g

\* an animation frame: drag write, update(dt), drag write, syncSvg, which
\* creates the node element of every slot that is not free
Frame(t) ==
    /\ Handled
    /\ Becomes(FrameDragWrite(Update(FrameDragWrite(G), t)))
    /\ nodeEls' = nodeEls \cup Live
    /\ UNCHANGED <<selectedIndex, draggingIndex, dragTarget, pending, dragStale>>
    /\ ret' = [NoCall EXCEPT !.op = "frame", !.t = t, !.i = draggingIndex,
                             !.stale = dragStale]

NextPage ==
    \/ \E names \in PageGroups, date \in PageDates : AddBtnClick(names, date)
    \/ \E t \in Timesteps : Frame(t)
    \/ \E idx \in nodeEls : NodePointerDown(idx)
    \/ \E p \in PointerTargets : PointerMove(p)
    \/ PointerUp
    \/ BackgroundPointerDown
    \/ \E next \in PanelNames : PanelNameInput(next)
    \/ PanelDeleteClick
    \/ PanelFileChange
    \/ \E rd \in pending, img \in Images : ImageReadDone(rd, img)

SpecPage == Init /\ [][NextPage]_vars

---------------------------------------------------------------------------
(* Vocabulary of the properties *)

Min2(x, y) == IF x <= y THEN x ELSE y

SetMin(S) == CHOOSE x \in S : \A y \in S : x <= y

\* the stored edges, as a set of <<a, b, date>>
EdgeSet(es) == {es[e] : e \in DOMAIN es}

\* positions in the edge list es of the edges that have i as an endpoint
Incident(es, i) == {e \in DOMAIN es : es[e][1] = i \/ es[e][2] = i}

\* positions in es of the edges joining a and b, in either stored order
Joining(es, a, b) == {e \in DOMAIN es : {es[e][1], es[e][2]} = {a, b}}

\* the date stored for the pair {a, b}, which has an edge in es
DateOf(es, a, b) == es[CHOOSE e \in Joining(es, a, b) : TRUE][3]

\* indices of the free slots of the node array ns
FreeSlots(ns) == {i \in DOMAIN ns : ns[i] = Null}

\* indices of the live nodes of ns called name
Holders(ns, name) == {i \in DOMAIN ns : ns[i] /= Null /\ ns[i].name = name}

\* the index a name denotes: its lowest live holder, or -1
Lookup(ns, name) == IF Holders(ns, name) = {} THEN -1 ELSE SetMin(Holders(ns, name))

---------------------------------------------------------------------------
(* Invariants of the edge storage *)

\* the adjacency sets are exactly the stored edge list: there is one set per
\* slot, and for all in-bounds indices a and b, b is in adj[a] if and only if
\* an edge with endpoints {a, b} is in edges
AdjacencyExact ==
    /\ DOMAIN adj = DOMAIN nodes
    /\ \A a \in InBounds :
        /\ adj[a] \subseteq InBounds
        /\ \A b \in InBounds : (b \in adj[a]) <=> (Joining(edges, a, b) /= {})

\* both endpoints of every stored edge are occupied slots
EndpointsLive ==
    \A e \in DOMAIN edges : edges[e][1] \in Live /\ edges[e][2] \in Live

\* C1 as stated: after any sequence of calls on in-bounds indices, free slots
\* included for addOrUpdateEdge, the adjacency sets are exactly the stored
\* edge list.
C1_ExactOnAnyIndex == AdjacencyExact

\* C1 as amended: after any sequence of calls in which addOrUpdateEdge is
\* given live indices, the adjacency sets are exactly the stored edge list
\* (and every edge joins live nodes): every such call, made where this holds,
\* leaves it holding, and it holds of the new graph.
C1_ExactOnLiveIndex ==
    [][ (/\ AdjacencyExact
         /\ EndpointsLive
         /\ ret'.op = "addOrUpdateEdge" => (ret'.i \in Live /\ ret'.j \in Live)) =>
            (AdjacencyExact' /\ EndpointsLive')
      ]_vars

\* C1 witness: addOrUpdateEdge has joined two live nodes of a graph with a
\* free slot, and the adjacency sets are exact
C1_Witness ==
    /\ ret.op = "addOrUpdateEdge"
    /\ ret.i \in Live /\ ret.j \in Live /\ ret.i > ret.j
    /\ FreeSlots(nodes) /= {}
    /\ ArrLen(edges) = 2
    /\ edges[1] = <<ret.j, ret.i, ret.date>>
    /\ AdjacencyExact
    /\ EndpointsLive

\* C2: both endpoints of every stored edge are occupied slots.
C2_EndpointsLive == EndpointsLive /\ \A i \in FreeSlots(nodes) : Incident(edges, i) = {}

\* C2 witness: a slot freed by deleteNode together with its edges has been
\* reused by getOrCreateNodeIndex while another edge is stored (three calls:
\* the only way to three slots and the single edge (0,2) is a group of three
\* followed by deleteNode(1))
C2_Witness ==
    /\ ops = 3
    /\ ret.op = "getOrCreateNodeIndex"
    /\ ret.val = 1
    /\ ArrLen(nodes) = 3
    /\ Live = {0, 1, 2}
    /\ {<<edges[e][1], edges[e][2]>> : e \in DOMAIN edges} = {<<0, 2>>}

\* C3: the edge list holds at most one edge per unordered pair of indices.
C3_OneEdgePerPair ==
    \A e1, e2 \in DOMAIN edges :
        {edges[e1][1], edges[e1][2]} = {edges[e2][1], edges[e2][2]} => e1 = e2

\* C3 witness: addOrUpdateEdge(i, j, d) with i > j on a pair whose edge was
\* stored with an earlier date, after a deletion moved that edge to another
\* position of the edge list; the list still holds the one edge
C3_Witness ==
    /\ ret.op = "addOrUpdateEdge"
    /\ ret.i > ret.j
    /\ FreeSlots(nodes) /= {}
    /\ ArrLen(edges) = 1
    /\ edges[0][1] = ret.j /\ edges[0][2] = ret.i /\ edges[0][3] < ret.date

---------------------------------------------------------------------------
(* Dates, index stability and slot reuse *)

\* C4: the date stored on an edge is the minimum of the dates submitted for
\* its pair: a call that submits date d for a pair that has an edge leaves
\* min(stored, d), in whichever order the endpoints are given; after a call
\* that submitted d1, submitting d2 stores the same date as d2 then d1 would
\* have; and the date of an edge never increases while the edge exists.
C4_EarliestDate ==
    [][ /\ \A e \in DOMAIN edges :
            LET a == edges[e][1]
                b == edges[e][2]
            IN  Joining(edges', a, b) /= {} =>
                    /\ DateOf(edges', a, b) <= edges[e][3]
                    /\ (ret'.op = "addOrUpdateEdge" /\ {ret'.i, ret'.j} = {a, b}) =>
                            DateOf(edges', a, b) = Min2(edges[e][3], ret'.date)
        /\ ret'.op = "addOrUpdateEdge" =>
            \A d2 \in Dates :
                LET g12 == AddOrUpdateEdge(G', ret'.j, ret'.i, d2)
                    g21 == AddOrUpdateEdge(AddOrUpdateEdge(G, ret'.i, ret'.j, d2),
                                           ret'.i, ret'.j, ret'.date)
                IN  /\ g12.edges = g21.edges
                    /\ DateOf(g12.edges, ret'.i, ret'.j) =
                            IF Joining(edges, ret'.i, ret'.j) = {}
                            THEN Min2(ret'.date, d2)
                            ELSE Min2(DateOf(edges, ret'.i, ret'.j), Min2(ret'.date, d2))
      ]_vars

\* C4 witness: addOrUpdateEdge has submitted 2020 for a pair stored with 2015,
\* and 2015 is kept
C4_Witness ==
    /\ ret.op = "addOrUpdateEdge"
    /\ ret.i < ret.j
    /\ ret.date = 2020
    /\ Joining(edges, ret.i, ret.j) /= {}
    /\ DateOf(edges, ret.i, ret.j) = 2015

\* C5: index stability: while the node a name denotes stays live and keeps its
\* name, and no node is renamed, every call leaves the name denoting the same
\* index, and getOrCreateNodeIndex of the name returns that index and
\* allocates nothing, whatever other nodes are created or deleted.
C5_IndexStable ==
    [][ \A name \in Names :
            LET k == Lookup(nodes, name)
            IN  (/\ k /= -1
                 /\ ret'.op /= "renameNode"
                 /\ k \in DOMAIN nodes'
                 /\ nodes'[k] /= Null) =>
                    /\ nodes'[k].name = name
                    /\ Lookup(nodes', name) = k
                    /\ (ret'.op = "getOrCreateNodeIndex" /\ ret'.name = name) =>
                            (ret'.val = k /\ nodes' = nodes)
      ]_vars

\* C5 witness: getOrCreateNodeIndex has returned index 1 for the name of the
\* live node 1 while the lower slot 0 is free for reuse
C5_Witness ==
    /\ ret.op = "getOrCreateNodeIndex"
    /\ ret.val = 1
    /\ ArrLen(nodes) >= 2
    /\ nodes[0] = Null
    /\ nodes[1] /= Null /\ nodes[1].name = ret.name

\* C6: slot reuse: getOrCreateNodeIndex with a name held by no live node
\* returns the lowest free index if a slot is free and otherwise the storage
\* length, appending one slot; the slot then holds a new node of that name;
\* and whenever a call has grown the storage no slot is free afterwards.
C6_SlotReuse ==
    [][ /\ (ret'.op = "getOrCreateNodeIndex" /\ Holders(nodes, ret'.name) = {}) =>
            /\ ret'.val = IF FreeSlots(nodes) /= {} THEN SetMin(FreeSlots(nodes))
                          ELSE ArrLen(nodes)
            /\ ArrLen(nodes') = IF FreeSlots(nodes) /= {} THEN ArrLen(nodes)
                                ELSE ArrLen(nodes) + 1
            /\ nodes'[ret'.val] = Node(ret'.name)
            /\ \A k \in DOMAIN nodes \ {ret'.val} : nodes'[k] = nodes[k]
        /\ ArrLen(nodes') >= ArrLen(nodes)
        /\ ArrLen(nodes') > ArrLen(nodes) => FreeSlots(nodes') = {}
      ]_vars

\* C6 witness: with slots 0 and 1 free and node 2 live, a new name has been
\* given index 0 (four calls: a group of three, two deletions, the creation)
C6_Witness ==
    /\ ops = 4
    /\ ret.op = "getOrCreateNodeIndex"
    /\ ret.val = 0
    /\ ArrLen(nodes) = 3
    /\ nodes[1] = Null
    /\ nodes[2] /= Null
    /\ nodes[0] = Node(ret.name)
    /\ ArrLen(edges) = 0
    /\ ret.name = "B"
    /\ nodes[2].name = "C"

---------------------------------------------------------------------------
(* Deletion, degree and friend groups *)

\* C7: deletion completeness: deleteNode(i) on a live index i returns exactly
\* the endpoint pairs of the edges incident to i before the call, each once,
\* and afterwards no stored edge, adjacency set or pair-index key references i.
C7_DeletionComplete ==
    [][ (ret'.op = "deleteNode" /\ nodes[ret'.i] /= Null) =>
            LET i == ret'.i
                pairs == ret'.pairs
            IN  /\ {pairs[k] : k \in DOMAIN pairs} =
                        {<<edges[e][1], edges[e][2]>> : e \in Incident(edges, i)}
                /\ ArrLen(pairs) = Cardinality(Incident(edges, i))
                /\ nodes'[i] = Null
                /\ Incident(edges', i) = {}
                /\ adj'[i] = {}
                /\ \A j \in DOMAIN adj' : i \notin adj'[j]
                /\ \A key \in DOMAIN pairToEdgeIndex' : key[1] /= i /\ key[2] /= i
      ]_vars

\* C7 witness: deleteNode(i) has returned two pairs, in one of which i is the
\* first endpoint and in the other the second
C7_Witness ==
    /\ ret.op = "deleteNode"
    /\ ArrLen(ret.pairs) = 2
    /\ \E k \in DOMAIN ret.pairs : ret.pairs[k][1] = ret.i /\ ret.pairs[k][2] /= ret.i
    /\ \E k \in DOMAIN ret.pairs : ret.pairs[k][2] = ret.i /\ ret.pairs[k][1] /= ret.i

\* C8: deleteNode(i) on a live index removes only the edges incident to i:
\* the stored edges afterwards are exactly the edges that did not touch i,
\* with the same endpoints and dates, the degree of every other node j that
\* had an edge to i drops by exactly 1, and the degree of every other node is
\* unchanged.
C8_DeletionFrame ==
    [][ (ret'.op = "deleteNode" /\ nodes[ret'.i] /= Null) =>
            LET i == ret'.i
            IN  /\ EdgeSet(edges') =
                        {edges[e] : e \in DOMAIN edges \ Incident(edges, i)}
                /\ ArrLen(edges') = ArrLen(edges) - Cardinality(Incident(edges, i))
                /\ \A j \in InBounds \ {i} :
                        Degree(G', j) =
                            IF Joining(edges, i, j) /= {} THEN Degree(G, j) - 1
                            ELSE Degree(G, j)
      ]_vars

\* C8 witness: deleteNode has removed two edges of a triangle; the edge of the
\* two former neighbours is still stored and each of them has degree 1
C8_Witness ==
    /\ ret.op = "deleteNode"
    /\ ArrLen(ret.pairs) = 2
    /\ ArrLen(edges) = 1
    /\ edges[0][1] /= edges[0][2]
    /\ Degree(G, edges[0][1]) = 1 /\ Degree(G, edges[0][2]) = 1
    /\ \A k \in DOMAIN ret.pairs :
            {ret.pairs[k][1], ret.pairs[k][2]} \cap {edges[0][1], edges[0][2]} /= {}

\* C9: for every in-bounds index i, degree(i) is the number of stored edges
\* that have i as an endpoint, as the edge scan counts them, and it is 0 when
\* slot i is free or no edge touches i.
C9_DegreeIsEdgeCount ==
    \A i \in InBounds :
        /\ Degree(G, i) = Cardinality(Incident(edges, i))
        /\ Degree(G, i) = DegreeScan(G, i)
        /\ nodes[i] = Null => Degree(G, i) = 0

\* C9 witness: a free slot, of degree 0, beside a node of degree 2
C9_Witness ==
    /\ \E i \in InBounds : nodes[i] = Null /\ Degree(G, i) = 0
    /\ \E j \in InBounds : Degree(G, j) = 2

\* C10: clique completeness: after addFriendGroup(names, d) every pair of
\* positions of the name list has an edge between the indices the two names
\* resolve to, and the call returns those indices; a pair that had an edge
\* keeps min(old, d), a new one is dated d, no other edge changes; on an empty
\* graph with k pairwise distinct names exactly k(k-1)/2 edges are stored.
C10_CliqueComplete ==
    [][ ret'.op = "addFriendGroup" =>
            LET names == ret'.names
                d == ret'.date
                k == Len(names)
                idx == [p \in 1..k |-> Lookup(nodes', names[p])]
                inGroup(a, b) == \E p, q \in 1..k : p < q /\ {idx[p], idx[q]} = {a, b}
            IN  /\ \A p \in 1..k : idx[p] /= -1 /\ ret'.indices[p - 1] = idx[p]
                /\ \A p, q \in 1..k : p < q => Joining(edges', idx[p], idx[q]) /= {}
                /\ \A e \in DOMAIN edges :
                        e \in DOMAIN edges' /\ edges'[e][1] = edges[e][1]
                                            /\ edges'[e][2] = edges[e][2]
                /\ \A e \in DOMAIN edges' :
                        LET a == edges'[e][1]
                            b == edges'[e][2]
                        IN  IF Joining(edges, a, b) = {}
                            THEN inGroup(a, b) /\ edges'[e][3] = d
                            ELSE edges'[e][3] =
                                    IF inGroup(a, b) THEN Min2(DateOf(edges, a, b), d)
                                    ELSE DateOf(edges, a, b)
                /\ (ArrLen(nodes) = 0 /\ \A p, q \in 1..k : names[p] = names[q] => p = q) =>
                        /\ ArrLen(edges') = (k * (k - 1)) \div 2
                        /\ \A e \in DOMAIN edges' : edges'[e][3] = d
      ]_vars

\* C10 witness: addFriendGroup of three distinct names on the empty graph has
\* stored the three edges of the triangle
C10_Witness ==
    /\ ops = 1
    /\ ret.op = "addFriendGroup"
    /\ Len(ret.names) = 3
    /\ {<<edges[e][1], edges[e][2]>> : e \in DOMAIN edges} = {<<0, 1>>, <<0, 2>>, <<1, 2>>}

---------------------------------------------------------------------------
\* C11: deleteNode on an index whose slot is already free returns an empty list
\* and leaves nodes, edges, adjacency and pair index as they were; after any
\* deleteNode(i), deleting i again returns an empty list and changes nothing
C11_DeleteFreeIsNoOp ==
    [][ ret'.op = "deleteNode" =>
            /\ nodes[ret'.i] = Null => (G' = G /\ ret'.pairs = EmptyArr)
            /\ DeleteNode(G', ret'.i) = [g |-> G', removedPairs |-> EmptyArr]
      ]_vars

\* C11 witness: deleteNode has been called on a slot that was free before the
\* call (a live slot would have lost the edge that is still stored on it)
C11_Witness ==
    /\ ret.op = "deleteNode"
    /\ nodes[ret.i] = Null
    /\ Incident(edges, ret.i) /= {}
    /\ ret.pairs = EmptyArr

---------------------------------------------------------------------------
\* C12: deleteNode, degree, renameNode or isFree called with an index outside
\* the storage bounds fails (isFree's answer false is counted as its failure
\* report) and leaves nodes, storage length, edges, adjacency and pair index
\* exactly as before the call
C12_OutOfBoundsLeavesState ==
    [][ (ret'.op \in {"deleteNode", "degree", "renameNode", "isFree"}
            /\ ret'.i \notin InBounds) =>
            /\ G' = G
            /\ ret'.threw \/ (ret'.op = "isFree" /\ ret'.val = 0)
      ]_vars

---------------------------------------------------------------------------
\* C18: renameNode on an in-bounds index whose slot is free throws and leaves
\* the whole graph unchanged: the slot stays free and no name is written
C18_RenameFreeThrows ==
    [][ (ret'.op = "renameNode" /\ ret'.i \in InBounds /\ nodes[ret'.i] = Null) =>
            /\ ret'.threw
            /\ G' = G
            /\ nodes'[ret'.i] = Null
      ]_vars

\* C18 witness: renameNode has thrown on an index inside storage
C18_Witness ==
    /\ ret.op = "renameNode"
    /\ ret.threw
    /\ ret.i \in InBounds
    /\ nodes[ret.i] = Null

---------------------------------------------------------------------------
\* C13: in every state reached by getOrCreateNodeIndex, addFriendGroup,
\* deleteNode and update alone, no two live nodes have the same name
C13_NamesUnique ==
    \A i, j \in Live : nodes[i].name = nodes[j].name => i = j

\* C13 witness: a group naming A twice has been added, and one node holds A
C13_Witness ==
    /\ ret.op = "addFriendGroup"
    /\ ret.names = <<"A", "A">>
    /\ Cardinality(Holders(nodes, "A")) = 1
    /\ Cardinality(Live) >= 2

---------------------------------------------------------------------------
\* C14: update(t) changes nothing but the positions of live nodes: the free
\* slots, the storage length, every node's name and image, the edge list with
\* its dates, the adjacency sets and the pair index are unchanged, and with no
\* live node the whole state is unchanged
C14_UpdateFrame ==
    [][ ret'.op = "update" =>
            /\ DOMAIN nodes' = DOMAIN nodes
            /\ FreeSlots(nodes') = FreeSlots(nodes)
            /\ \A i \in DOMAIN nodes :
                    nodes'[i] = [nodes[i] EXCEPT !.pos = nodes'[i].pos]
            /\ \A i \in FreeSlots(nodes) : nodes'[i] = Null
            /\ edges' = edges
            /\ adj' = adj
            /\ pairToEdgeIndex' = pairToEdgeIndex
            /\ (Live = {} => nodes' = nodes)
      ]_vars

\* C14 witness: update has moved a node that has an image and an edge, in a
\* graph with a free slot
C14_Witness ==
    /\ ret.op = "update"
    /\ FreeSlots(nodes) /= {}
    /\ \E i \in Live : /\ nodes[i].image /= 0
                       /\ nodes[i].pos /= Vec2(0, 0)
                       /\ Incident(edges, i) /= {}

---------------------------------------------------------------------------
\* accumulators of update before any force is added
ZeroForces == [k \in DOMAIN nodes |-> Vec2(0, 0)]

RECURSIVE SumForces(_, _)
SumForces(forces, k) ==
    IF k >= ArrLen(forces) THEN Vec2(0, 0)
    ELSE Vec2Add(forces[k], SumForces(forces, k + 1))

\* C15: in an update step, the terms of every pair of live nodes i < j add a
\* vector to node i's accumulator and its exact negation to node j's and touch
\* no other accumulator, so the pairwise contributions over all nodes sum to
\* the zero vector
C15_ForceSymmetry ==
    /\ \A i, j \in Live : i < j =>
            LET f == PairForces(G, ZeroForces, i, j)
            IN  /\ f[i] = Vec2Sub(Vec2(0, 0), f[j])
                /\ \A k \in DOMAIN f : k \notin {i, j} => f[k] = Vec2(0, 0)
    /\ SumForces(PairLoop(G, ZeroForces, 0, 1), 0) = Vec2(0, 0)
    /\ \A k \in FreeSlots(nodes) : PairLoop(G, ZeroForces, 0, 1)[k] = Vec2(0, 0)

\* C15 witness: a connected pair and an unconnected pair of live nodes, each
\* with a non-zero force between them
C15_Witness ==
    \E i, j, k, m \in Live :
        /\ i < j /\ j \in adj[i]
        /\ PairForces(G, ZeroForces, i, j)[i] /= Vec2(0, 0)
        /\ k < m /\ m \notin adj[k]
        /\ PairForces(G, ZeroForces, k, m)[k] /= Vec2(0, 0)

---------------------------------------------------------------------------
\* C16: when update runs on two live nodes i < j that both sit at the origin,
\* the displacement it uses is the jitter entry j mod 8, its length is not
\* zero (no division by zero), and afterwards the two nodes are at distinct
\* positions, node j moved along the jitter entry and node i the opposite way
C16_CoincidentStart ==
    [][ (ret'.op = "update" /\ Cardinality(Live) = 2
            /\ \A i \in Live : nodes[i].pos = Vec2(0, 0)) =>
            LET i == SetMin(Live)
                j == CHOOSE k \in Live : k /= i
                r == PairR(nodes, i, j)
                pi == nodes'[i].pos
                pj == nodes'[j].pos
            IN  /\ r = jitter[j % 8]
                /\ Vec2Len(r) > 0
                /\ pi /= pj
                /\ pi = Vec2Sub(Vec2(0, 0), pj)
                /\ pj[1] * r[1] >= 0 /\ pj[2] * r[2] >= 0
                /\ pj[1] * r[1] + pj[2] * r[2] > 0
      ]_vars

\* C16 witness: the first update after addFriendGroup(["A", "B"]) on a new
\* graph has left A and B apart along jitter[1]
C16_Witness ==
    /\ ops = 2
    /\ ret.op = "update"
    /\ ArrLen(nodes) = 2 /\ Live = {0, 1}
    /\ nodes[0].name = "A" /\ nodes[1].name = "B"
    /\ 1 \in adj[0]
    /\ nodes[1].pos[1] > 0 /\ nodes[1].pos[2] > 0
    /\ nodes[0].pos = Vec2Sub(Vec2(0, 0), nodes[1].pos)

---------------------------------------------------------------------------
\* C17: the pair index is exact in every reachable state: the key of (a, b),
\* a <= b, is present exactly when an edge (a, b) is stored, and it maps to the
\* position that edge now has in the edge list
C17_PairIndexExact ==
    /\ DOMAIN pairToEdgeIndex =
            {PairKey(edges[e][1], edges[e][2]) : e \in DOMAIN edges}
    /\ \A e \in DOMAIN edges :
            /\ edges[e][1] <= edges[e][2]
            /\ pairToEdgeIndex[PairKey(edges[e][1], edges[e][2])] = e

\* C17 witness: deleteNode(0) has removed the first two edges of a triangle,
\* and the edge (1, 2), stored third, is now found at position 0
C17_Witness ==
    /\ ret.op = "deleteNode"
    /\ ret.i = 0
    /\ ArrLen(ret.pairs) = 2
    /\ ret.pairs[0] = <<0, 1>> /\ ret.pairs[1] = <<0, 2>>
    /\ ArrLen(edges) = 1
    /\ edges[0][1] = 1 /\ edges[0][2] = 2
    /\ pairToEdgeIndex[PairKey(1, 2)] = 0

---------------------------------------------------------------------------
\* C19: renameNode writes the new name whatever names the other nodes have and
\* changes nothing else; getOrCreateNodeIndex of a name that live nodes hold,
\* several of them included, returns the lowest index among them and
\* allocates nothing
C19_FirstMatchWins ==
    [][ /\ ret'.op = "renameNode" =>
            /\ nodes' = [nodes EXCEPT ![ret'.i] = [@ EXCEPT !.name = ret'.name]]
            /\ edges' = edges /\ adj' = adj /\ pairToEdgeIndex' = pairToEdgeIndex
        /\ (ret'.op = "getOrCreateNodeIndex" /\ Holders(nodes, ret'.name) /= {}) =>
            /\ ret'.val = SetMin(Holders(nodes, ret'.name))
            /\ G' = G
      ]_vars

\* C19 witness: getOrCreateNodeIndex has looked up a name that two or more
\* live nodes hold, the lowest of them not in slot 0
C19_Witness ==
    /\ ret.op = "getOrCreateNodeIndex"
    /\ Cardinality(Holders(nodes, ret.name)) >= 2
    /\ ret.val = SetMin(Holders(nodes, ret.name))
    /\ ret.val > 0

---------------------------------------------------------------------------
\* C20: a node that getOrCreateNodeIndex creates, appended or in a reused slot
\* (also when addFriendGroup makes the call), is at (0,0) with no image; after
\* getOrCreateNodeIndex it has degree 0, no stored edge or pair key names its
\* index and no adjacency set contains it, and after addFriendGroup its only
\* edges are the ones to the group's other members
C20_FreshNode ==
    [][ /\ (ret'.op = "getOrCreateNodeIndex" /\ Holders(nodes, ret'.name) = {}) =>
            LET v == ret'.val
            IN  /\ v \in DOMAIN nodes'
                /\ v \notin Live
                /\ nodes'[v] = Node(ret'.name)
                /\ nodes'[v].pos = Vec2(0, 0) /\ nodes'[v].image = 0
                /\ Degree(G', v) = 0
                /\ Incident(edges', v) = {}
                /\ \A key \in DOMAIN pairToEdgeIndex' : key[1] /= v /\ key[2] /= v
                /\ \A k \in DOMAIN adj' : v \notin adj'[k]
        /\ ret'.op = "addFriendGroup" =>
            \A p \in DOMAIN ret'.indices :
                LET v == ret'.indices[p]
                    members == {ret'.indices[q] : q \in DOMAIN ret'.indices}
                IN  v \notin Live =>
                        /\ nodes'[v] = Node(ret'.names[p + 1])
                        /\ adj'[v] \subseteq members
                        /\ \A k \in DOMAIN adj' : v \in adj'[k] => k \in members
      ]_vars

\* C20 witness: getOrCreateNodeIndex has created C in slot 0 of a three-slot
\* storage whose slots 1 and 2 are joined by an edge: slot 0 was occupied when
\* slots 1 and 2 were allocated, so it is a reused slot
C20_Witness ==
    /\ ret.op = "getOrCreateNodeIndex"
    /\ ret.val = 0
    /\ ArrLen(nodes) = 3
    /\ nodes[0] = Node("C")
    /\ nodes[1] /= Null /\ adj[1] = {2}
    /\ adj[0] = {}

---------------------------------------------------------------------------
\* the element of the set of positions S with k elements of S before it
Nth(S, k) == CHOOSE x \in S : Cardinality({y \in S : y < x}) = k

\* C21: deleteNode(i) of a live node returns the endpoint pairs of the removed
\* edges in the order those edges had in the edge list, and the edges that
\* stay keep their order
C21_DeletionKeepsOrder ==
    [][ (ret'.op = "deleteNode" /\ nodes[ret'.i] /= Null) =>
            LET gone == Incident(edges, ret'.i)
                stay == DOMAIN edges \ gone
            IN  /\ ArrLen(ret'.pairs) = Cardinality(gone)
                /\ \A k \in DOMAIN ret'.pairs :
                        ret'.pairs[k] = <<edges[Nth(gone, k)][1], edges[Nth(gone, k)][2]>>
                /\ ArrLen(edges') = Cardinality(stay)
                /\ \A k \in DOMAIN edges' : edges'[k] = edges[Nth(stay, k)]
      ]_vars

\* C21 witness: deleteNode(1) has removed the second and fourth of four
\* edges, returned in that order, and has kept the first and third in theirs
C21_Witness ==
    /\ ret.op = "deleteNode"
    /\ ret.i = 1
    /\ ArrLen(ret.pairs) = 2
    /\ ret.pairs[0] = <<0, 1>> /\ ret.pairs[1] = <<1, 2>>
    /\ ArrLen(edges) = 2
    /\ edges[0][1] = 0 /\ edges[0][2] = 0
    /\ edges[1][1] = 0 /\ edges[1][2] = 2

---------------------------------------------------------------------------
\* length of a force vector, to the nearest hundred below
ForceLen(f) == 100 * Vec2Len(<<TDiv(f[1], 100), TDiv(f[2], 100)>>)

\* what update pushes node j away from node i with when the pair is at the
\* clamped distance 1 and dir is a unit vector: the close-range term plus the
\* compressed spring if connected, plus the inverse-square term if not
PushAtClamp(connected) ==
    IF connected
    THEN closeRepelK * Scale
            + TDiv(springK * (springRest - Scale) * (springRest - Scale), 10 * springRest)
    ELSE (repelK + closeRepelK) * Scale

\* C22 as claimed: for every pair of live nodes the direction vector of update
\* is the displacement r divided by the clamped distance max(length(r), 1)
C22_DirByClampedDistance ==
    \A i, j \in Live : i < j =>
        LET r == PairR(nodes, i, j)
        IN  PairDir(r) = Vec2MulFrac(r, DirScale, PairDist(r))

\* C22 amended: in update, for every pair of live nodes the direction vector
\* is r divided by its own length, a unit vector also when the nodes are
\* closer than 1, and the clamped distance max(length(r), 1) is the one in the
\* three magnitudes: a pair closer than 1 is pushed apart with the force of
\* distance 1
C22_UnitDirClampedMagnitude ==
    [][ ret'.op = "update" =>
            \A i, j \in Live : i < j =>
                LET r == PairR(nodes, i, j)
                    len == Vec2Len(r)
                    dir == PairDir(r)
                    f == PairForces(G, ZeroForces, i, j)[j]
                    push == PushAtClamp(j \in adj[i])
                IN  /\ len > 0
                    /\ Vec2Len(dir) >= DirScale - 2
                    /\ Vec2Len(dir) * len <= DirScale * (len + 1)
                    /\ PairDist(r) >= Scale
                    /\ len < Scale =>
                            /\ PairDist(r) = Scale
                            /\ ForceLen(f) >= push - 200
                            /\ ForceLen(f) * len <= (push + 200) * (len + 1)
      ]_vars

\* C22 witness: update has run on two unconnected nodes half a unit apart and
\* has left them about 100 units apart, each moved about 49.6
C22_Witness ==
    /\ ret.op = "update"
    /\ Live = {0, 1}
    /\ adj[0] = {}
    /\ nodes[0].pos[1] < -4000
    /\ nodes[1].pos[1] > 4000
    /\ nodes[1].pos[1] - nodes[0].pos[1] < 11000

---------------------------------------------------------------------------
\* C23: after any sequence of addFriendGroup, getOrCreateNodeIndex, renameNode
\* and deleteNode calls, every stored edge has two distinct endpoints a < b,
\* no node is in its own adjacency set and no degree counts the node itself
C23_NoSelfLoop ==
    /\ \A e \in DOMAIN edges : edges[e][1] < edges[e][2]
    /\ \A i \in DOMAIN adj : i \notin adj[i]
    /\ \A i \in Live : Degree(G, i) = Cardinality(adj[i] \ {i})

---------------------------------------------------------------------------
\* C24: in every interleaving of the page's events, the image of a file
\* chosen while node s was selected is written to node s only: when the read
\* completes, the write goes to index s, s still holds the node that was
\* selected, and the write does not throw on a negative index or a free slot
C24_ImageToChosenNode ==
    [][ ret'.op = "imageRead" =>
            /\ ~ret'.threw
            /\ ret'.i = ret'.val
            /\ ~ret'.stale
            /\ ret'.i \in Live
      ]_vars

---------------------------------------------------------------------------
\* C25: whenever a drag is in progress (draggingIndex >= 0), draggingIndex is
\* the index of a live node, the one the drag started on
C25_DragOnLiveNode ==
    draggingIndex >= 0 => (draggingIndex \in Live /\ ~dragStale)

\* after such a state, dragMove throws on the freed slot, or, once the slot is
\* reused, dragMove and frame move the new node
C25_DragWriteHitsOtherNode ==
    /\ ret.op \in {"dragMove", "frame"}
    /\ ret.i >= 0
    /\ ret.stale
    /\ ret.i \in Live
    /\ nodes[ret.i].pos = dragTarget

C25_DragMoveThrows ==
    ret.op = "dragMove" /\ ret.threw

---------------------------------------------------------------------------
\* C26: in every state of the page selectedIndex is -1 or the index of a live
\* node, and the rename-on-input and delete-on-click handlers call renameNode
\* and deleteNode on a live index only, so neither throws
C26_SelectionLive ==
    [][ /\ selectedIndex' = -1 \/ selectedIndex' \in Live'
        /\ ret'.op \in {"liveRename", "panelDelete"} =>
                ret'.i \in Live /\ ~ret'.threw
      ]_vars

\* C26 witness: a node has been deleted from the panel, another node selected
\* afterwards and renamed from the panel
C26_Witness ==
    /\ ret.op = "liveRename"
    /\ FreeSlots(nodes) /= {}
    /\ selectedIndex \in Live
    /\ nodes[selectedIndex].name = ret.name

=============================================================================
